---- MODULE Spec2Model ----
(***************************************************************************)
(* Model of the Rust core of TauriCS (src-tauri/src/lib.rs): discovery of  *)
(* the native libraries in the setup hook, the registry NativeManager, the *)
(* three commands call_backend, call_backend_external and                  *)
(* start_streaming_task, and the progress callback with its two statics.   *)
(*                                                                         *)
(* Text is a sequence of numbers: bytes on the C side of the boundary,     *)
(* Unicode scalar values on the Rust side.  A buffer pointer is an index   *)
(* into heap; 0 is the null pointer.  A library is named by the index of   *)
(* its file in the directory enumeration.                                  *)
(***************************************************************************)
EXTENDS Naturals, Sequences, FiniteSets

VARIABLES
    dir,          \* the entries read_dir yields, in enumeration order
    pos,          \* number of entries the setup loop has processed
    setupDone,    \* the setup hook has returned (its guard is dropped)
    natives,      \* NativeManager.natives: key -> LoadedNative
    lock,         \* holder of the natives mutex, or "free"
    poisoned,     \* the natives mutex is poisoned
    fileLog,      \* per entry: what the setup closure did with it, in order
    notes,        \* entries for which the "Could not load" note was printed
    heap,         \* every buffer a library allocated: owner, bytes, history
    APP_HANDLE,   \* the static: TRUE when Some
    FREE_STRING_FN, \* the static: 0 when None, else the library of the fn
    pc,           \* per command thread: where it is in its command
    cur,          \* per command thread: the command it runs or ran last
    workers,      \* the threads start_streaming_task spawned
    events        \* the "csharp-stream" events emitted, in order

vars == <<dir, pos, setupDone, natives, lock, poisoned, fileLog, notes, heap,
          APP_HANDLE, FREE_STRING_FN, pc, cur, workers, events>>

(* ------------------------------ bounds -------------------------------- *)

\* Entries in a directory of the discovery specification.
MaxFiles == 3
\* Progress messages one execute_streaming sends.
MaxMsgs == 2

\* The threads that serve the frontend's invocations, one command each.
Threads == {"t1", "t2"}

(* ------------------------------- text --------------------------------- *)

\* to_lowercase on the scalar values used here: ASCII upper case moves down.
ToLowercase(s) ==
    [i \in DOMAIN s |-> IF s[i] >= 65 /\ s[i] <= 90 THEN s[i] + 32 ELSE s[i]]

\* CStr::from_ptr(p).to_string_lossy(): an ASCII byte is its own scalar value,
\* a byte that cannot start a UTF-8 sequence becomes U+FFFD.  The buffers of
\* this model hold ASCII bytes and the byte 255 only.
ToStringLossy(bytes) ==
    [i \in DOMAIN bytes |-> IF bytes[i] < 128 THEN bytes[i] ELSE 65533]

IsUtf8(bytes) == \A i \in DOMAIN bytes : bytes[i] < 128

\* CString::new(s) is an error exactly when s holds an interior NUL.
HasNul(s) == \E i \in DOMAIN s : s[i] = 0

(* ---------------------------- directory ------------------------------- *)

Symbols == {"get_native_name", "free_string", "execute",
            "execute_streaming", "execute_external"}

\* "a", "b", "C": the names the libraries of the model declare.
ModNames == {<<97>>, <<98>>, <<67>>}

ValidFile(n) == [dll |-> TRUE, opens |-> TRUE, syms |-> Symbols, name |-> n]

FileKinds ==
    {ValidFile(n) : n \in ModNames}
    \cup {[dll |-> FALSE, opens |-> TRUE, syms |-> {}, name |-> <<97>>]}
    \cup {[dll |-> TRUE, opens |-> FALSE, syms |-> {}, name |-> <<97>>]}
    \cup {[dll |-> TRUE, opens |-> TRUE, syms |-> Symbols \ {s}, name |-> <<97>>]
            : s \in Symbols}

RECURSIVE SeqsUpTo(_, _)
SeqsUpTo(S, n) ==
    IF n = 0 THEN {<<>>}
    ELSE LET shorter == SeqsUpTo(S, n - 1)
         IN  shorter \cup {Append(q, x) : q \in {r \in shorter : Len(r) = n - 1}, x \in S}

\* The directories of the full specification: two libraries with lower-case
\* names, one with an upper-case name, a file that does not open and a
\* duplicate of "a", in two enumeration orders.
RunDirs ==
    { <<ValidFile(<<97>>), ValidFile(<<98>>), ValidFile(<<67>>)>>,
      <<ValidFile(<<98>>), [dll |-> TRUE, opens |-> FALSE, syms |-> {}, name |-> <<97>>],
        ValidFile(<<97>>), ValidFile(<<97>>)>> }

(* ------------------------------- heap --------------------------------- *)

\* A library returns a fresh buffer: the pointer is the next index of heap.
Alloc(h, f, bytes) ==
    Append(h, [owner |-> f, bytes |-> bytes, reads |-> 0, freedBy |-> <<>>,
               readAfterFree |-> FALSE])

\* The host reads buffer p (CStr::from_ptr).
ReadBuf(h, p) ==
    [h EXCEPT ![p].reads = @ + 1,
              ![p].readAfterFree = @ \/ h[p].freedBy # <<>>]

\* free_string of library f is called on buffer p.
FreeBuf(h, p, f) == [h EXCEPT ![p].freedBy = Append(@, f)]

Ev(k, s, p) == [k |-> k, s |-> s, p |-> p]

(* ----------------------------- discovery ------------------------------ *)

\* LoadedNative: each field is a symbol of the library it was resolved from.
LoadedNative(f) ==
    [execute |-> f, execute_streaming |-> f, execute_external |-> f,
     free_string |-> f]

\* The key natives.insert is given: the name as get_native_name returned it.
InsertKey(name) == name

\* natives.insert(key, handle): a HashMap insert replaces an existing entry.
InsertKeepsFirst(m, key, h) ==
    IF key \in DOMAIN m THEN m
    ELSE [k \in DOMAIN m \cup {key} |-> IF k = key THEN h ELSE m[k]]
Insert(m, key, h) ==
    [k \in DOMAIN m \cup {key} |-> IF k = key THEN h ELSE m[k]]

\* The symbols the closure resolves before it calls get_native_name.
ResolvedBeforeIdentify == <<"get_native_name", "free_string">>
\* The symbols it resolves for LoadedNative, after the name was read.
ResolvedForHandle ==
    <<"execute", "execute_streaming", "execute_external", "free_string">>

\* lib.get over a list of symbols with `?`: the resolutions made, up to and
\* including the first that fails.
RECURSIVE ResolveLog(_, _)
ResolveLog(file, want) ==
    IF want = <<>> THEN <<>>
    ELSE IF Head(want) \in file.syms
         THEN <<Ev("resolve", Head(want), 0)>> \o ResolveLog(file, Tail(want))
         ELSE <<Ev("missing", Head(want), 0)>>

ResolvedUnchecked(file, want) == TRUE
AllResolved(file, want) == \A i \in DOMAIN want : want[i] \in file.syms

\* get_name(), the copy of the name and free_string_for_name(name_ptr)
\* (lines 209-211): the library allocates, the host reads, the library's own
\* free_string releases.
IdentifyLeaks(h, f, bytes) == ReadBuf(Alloc(h, f, bytes), Len(h) + 1)
IdentifyHeap(h, f, bytes) ==
    FreeBuf(ReadBuf(Alloc(h, f, bytes), Len(h) + 1), Len(h) + 1, f)

\* One iteration of the setup loop on entry f == pos + 1 (lines 195-231).
ProcessEntry ==
    /\ ~setupDone
    /\ pos < Len(dir)
    /\ LET f == pos + 1
           file == dir[f]
           p == Len(heap) + 1
           pre == ResolveLog(file, ResolvedBeforeIdentify)
           post == ResolveLog(file, ResolvedForHandle)
           name == ToStringLossy(file.name)
           identify == <<Ev("call", "get_native_name", p), Ev("copy", "name", p),
                         Ev("call", "free_string", p)>>
       IN  /\ pos' = f
           /\ IF ~file.dll
              THEN /\ fileLog' = Append(fileLog, <<>>)
                   /\ UNCHANGED <<natives, heap, notes>>
              ELSE IF ~file.opens
              THEN /\ fileLog' = Append(fileLog, <<Ev("openfail", "", 0)>>)
                   /\ notes' = Append(notes, f)
                   /\ UNCHANGED <<natives, heap>>
              ELSE IF ~AllResolved(file, ResolvedBeforeIdentify)
              THEN /\ fileLog' = Append(fileLog, <<Ev("open", "", 0)>> \o pre)
                   /\ notes' = Append(notes, f)
                   /\ UNCHANGED <<natives, heap>>
              ELSE /\ heap' = IdentifyHeap(heap, f, file.name)
                   /\ IF ~AllResolved(file, ResolvedForHandle)
                      THEN /\ fileLog' = Append(fileLog,
                                  <<Ev("open", "", 0)>> \o pre \o identify \o post)
                           /\ notes' = Append(notes, f)
                           /\ UNCHANGED natives
                      ELSE /\ fileLog' = Append(fileLog,
                                  <<Ev("open", "", 0)>> \o pre \o identify \o post
                                  \o <<Ev("insert", "", 0)>>)
                           /\ natives' = Insert(natives, InsertKey(name), LoadedNative(f))
                           /\ UNCHANGED notes
    /\ UNCHANGED <<dir, setupDone, lock, poisoned, APP_HANDLE, FREE_STRING_FN,
                   pc, cur, workers, events>>

\* The setup hook returns Ok(()): the guard on natives is dropped (line 233).
SetupReturn ==
    /\ ~setupDone
    /\ pos = Len(dir)
    /\ setupDone' = TRUE
    /\ lock' = "free"
    /\ UNCHANGED <<dir, pos, natives, poisoned, fileLog, notes, heap, APP_HANDLE,
                   FREE_STRING_FN, pc, cur, workers, events>>

\* No handle: library 0 is no library.
NoNative == [execute |-> 0, execute_streaming |-> 0, execute_external |-> 0,
             free_string |-> 0]

NoCmd == [op |-> "none", name |-> <<>>, payload |-> <<>>, native |-> NoNative,
          ptr |-> 0, result |-> "none", text |-> <<>>]

\* The state when the setup hook has taken the lock (lines 185-191): an empty
\* map, both statics None, no command under way.
InitWith(dirs) ==
    /\ dir \in dirs
    /\ pos = 0
    /\ setupDone = FALSE
    /\ natives = <<>>
    /\ lock = "setup"
    /\ poisoned = FALSE
    /\ fileLog = <<>>
    /\ notes = <<>>
    /\ heap = <<>>
    /\ APP_HANDLE = FALSE
    /\ FREE_STRING_FN = 0
    /\ pc = [t \in Threads |-> "idle"]
    /\ cur = [t \in Threads |-> NoCmd]
    /\ workers = <<>>
    /\ events = <<>>

(* ------------------------------ commands ------------------------------ *)

Ops == {"call", "external", "stream"}
\* "a", "B", "C": the names the frontend asks for.
CmdNames == {<<97>>, <<66>>, <<67>>}
\* "{" and "{" followed by a NUL: the payloads the frontend sends.
Payloads == {<<123>>, <<123, 0>>}
\* "x" and "y" followed by a byte that is not UTF-8: what a library returns.
Texts == {<<120>>, <<121, 255>>}

\* The frontend invokes a command; Tauri serves commands once setup returned.
Invoke(t, op, name, payload) ==
    /\ setupDone
    /\ pc[t] = "idle"
    /\ pc' = [pc EXCEPT ![t] = "lock"]
    /\ cur' = [cur EXCEPT ![t] = [NoCmd EXCEPT !.op = op, !.name = name,
                                                !.payload = payload]]
    /\ UNCHANGED <<dir, pos, setupDone, natives, lock, poisoned, fileLog, notes,
                   heap, APP_HANDLE, FREE_STRING_FN, workers, events>>

\* natives.get(&native_name.to_lowercase()) (lines 76, 108, 160).
LookupExact(name) == name
LookupKey(name) == ToLowercase(name)

\* HashMap::get borrows the map: the map after a lookup is the map before it.
NativesAfterRemove(m, key) == [k \in DOMAIN m \ {key} |-> m[k]]
NativesAfterGet(m, key) == m

\* The library whose entry point a command calls on the handle it found
\* (lines 81, 110).
EntryPoint(op, native) ==
    IF op = "external" THEN native.execute_external ELSE native.execute

Finish(t, result) ==
    /\ pc' = [pc EXCEPT ![t] = "done"]
    /\ cur' = [cur EXCEPT ![t].result = result]

\* state.natives.lock().unwrap() on a poisoned mutex panics (lines 74, 107, 159).
LockPoisoned(t) ==
    /\ pc[t] = "lock"
    /\ lock = "free"
    /\ poisoned
    /\ Finish(t, "Panic")
    /\ UNCHANGED <<dir, pos, setupDone, natives, lock, poisoned, fileLog, notes,
                   heap, APP_HANDLE, FREE_STRING_FN, workers, events>>

\* call_backend and call_backend_external from the lock to the call of the
\* entry point (lines 74-81, 107-110).  On a hit with an encodable payload the
\* guard stays alive while the library runs.
CallEnter(t) ==
    /\ pc[t] = "lock"
    /\ cur[t].op \in {"call", "external"}
    /\ lock = "free"
    /\ ~poisoned
    /\ LET key == LookupKey(cur[t].name)
       IN  IF key \notin DOMAIN natives
           THEN /\ Finish(t, "ModuleNotFound")
                /\ UNCHANGED lock
           ELSE IF HasNul(cur[t].payload)
           THEN /\ Finish(t, "EncodingError")
                /\ UNCHANGED lock
           ELSE /\ pc' = [pc EXCEPT ![t] = "executing"]
                /\ cur' = [cur EXCEPT ![t].native = natives[key]]
                /\ lock' = t
    /\ natives' = NativesAfterGet(natives, LookupKey(cur[t].name))
    /\ UNCHANGED <<dir, pos, setupDone, poisoned, fileLog, notes, heap,
                   APP_HANDLE, FREE_STRING_FN, workers, events>>

\* The library whose free_string a command calls on the result (lines 90, 116).
Releaser(native) == native.free_string

\* What the command does with a non-null result (lines 87-92, 114-118): the
\* heap after the copy and the release.
CopyOnly(h, p, native) == ReadBuf(h, p)
ReleaseThenCopy(h, p, native) == ReadBuf(FreeBuf(h, p, Releaser(native)), p)
CopyThenRelease(h, p, native) == FreeBuf(ReadBuf(h, p), p, Releaser(native))

\* The text the command returns for a buffer (lines 87, 114).
ResultText(bytes) == ToStringLossy(bytes)

\* The entry point returns null (lines 82-84, 111-113).
NullIsEmptyOk(t) == Finish(t, "Ok")
OnNullExternalOk(t) ==
    Finish(t, IF cur[t].op = "external" THEN "Ok" ELSE "NativeExecutionFailed")
OnNull(t) == Finish(t, "NativeExecutionFailed")

\* The entry point returns: null, or a buffer the library allocated
\* (lines 81-92, 110-118).  The guard is dropped as the command returns.
CallReturn(t, ret) ==
    /\ pc[t] = "executing"
    /\ lock' = "free"
    /\ IF ret = <<0>>
       THEN /\ OnNull(t)
            /\ UNCHANGED heap
       ELSE LET p == Len(heap) + 1
                native == cur[t].native
                owner == EntryPoint(cur[t].op, native)
            IN  /\ heap' = CopyThenRelease(Alloc(heap, owner, ret), p, native)
                /\ pc' = [pc EXCEPT ![t] = "done"]
                /\ cur' = [cur EXCEPT ![t].ptr = p,
                                      ![t].result = "Ok",
                                      ![t].text = ResultText(ret)]
    /\ UNCHANGED <<dir, pos, setupDone, natives, poisoned, fileLog, notes,
                   APP_HANDLE, FREE_STRING_FN, workers, events>>

\* FREE_STRING_FN = Some(*native.free_string) (line 168).
RouteReleaseUnset(native) == 0
RouteRelease(native) == native.free_string

\* start_streaming_task (lines 159-176).  CString::new(..).unwrap() panics on
\* an interior NUL while the guard is alive, which poisons the mutex.
StartStreaming(t) ==
    /\ pc[t] = "lock"
    /\ cur[t].op = "stream"
    /\ lock = "free"
    /\ ~poisoned
    /\ LET key == LookupKey(cur[t].name)
       IN  IF key \notin DOMAIN natives
           THEN /\ Finish(t, "Returned")
                /\ UNCHANGED <<poisoned, APP_HANDLE, FREE_STRING_FN, workers>>
           ELSE IF HasNul(cur[t].payload)
           THEN /\ Finish(t, "Panic")
                /\ poisoned' = TRUE
                /\ UNCHANGED <<APP_HANDLE, FREE_STRING_FN, workers>>
           ELSE /\ pc' = [pc EXCEPT ![t] = "done"]
                /\ cur' = [cur EXCEPT ![t].native = natives[key],
                                      ![t].result = "Returned"]
                /\ APP_HANDLE' = TRUE
                /\ FREE_STRING_FN' = RouteRelease(natives[key])
                /\ workers' = Append(workers,
                                [native |-> natives[key], pc |-> "run", ptr |-> 0,
                                 sent |-> <<>>, by |-> t])
                /\ UNCHANGED poisoned
    /\ natives' = NativesAfterGet(natives, LookupKey(cur[t].name))
    /\ UNCHANGED <<dir, pos, setupDone, lock, fileLog, notes, heap, events>>

(* ------------------------- streaming workers -------------------------- *)

\* handle.emit("csharp-stream", message) (line 141): the frontend sees the
\* events in the order of the emits.
Emit(evs, w, p, text) == Append(evs, [w |-> w, p |-> p, text |-> text])

\* The callback's release of the message (lines 144-146): free_fn is whatever
\* FREE_STRING_FN holds when the callback reads it; None leaks the buffer.
\* The statics are written by start_streaming_task under no synchronisation
\* with the workers' reads: a read that races with a write yields the value
\* before or the value after it, which the interleaving of StartStreaming
\* with CallbackEmit and CallbackFree covers.
LeakMessage(h, p) == h
FreeMessageTwice(h, p) ==
    IF FREE_STRING_FN # 0
    THEN FreeBuf(FreeBuf(h, p, FREE_STRING_FN), p, FREE_STRING_FN)
    ELSE h
FreeMessage(h, p) ==
    IF FREE_STRING_FN # 0 THEN FreeBuf(h, p, FREE_STRING_FN) ELSE h

\* execute_streaming calls progress_callback with a buffer it allocated; the
\* callback's first half (lines 138-142) emits the event when APP_HANDLE is Some.
CallbackEmit(w, bytes) ==
    /\ workers[w].pc = "run"
    /\ Len(workers[w].sent) < MaxMsgs
    /\ LET p == Len(heap) + 1
           h1 == Alloc(heap, workers[w].native.execute_streaming, bytes)
       IN  /\ workers' = [workers EXCEPT ![w].pc = "free", ![w].ptr = p,
                                         ![w].sent = Append(@, p)]
           /\ IF APP_HANDLE
              THEN /\ heap' = ReadBuf(h1, p)
                   /\ events' = Emit(events, w, p, ToStringLossy(bytes))
              ELSE /\ heap' = h1
                   /\ UNCHANGED events
    /\ UNCHANGED <<dir, pos, setupDone, natives, lock, poisoned, fileLog, notes,
                   APP_HANDLE, FREE_STRING_FN, pc, cur>>

\* The callback's second half (lines 144-146).
CallbackFree(w) ==
    /\ workers[w].pc = "free"
    /\ heap' = FreeMessage(heap, workers[w].ptr)
    /\ workers' = [workers EXCEPT ![w].pc = "run"]
    /\ UNCHANGED <<dir, pos, setupDone, natives, lock, poisoned, fileLog, notes,
                   APP_HANDLE, FREE_STRING_FN, pc, cur, events>>

\* execute_streaming returns and the detached thread ends (lines 172-174).
WorkerReturn(w) ==
    /\ workers[w].pc = "run"
    /\ workers' = [workers EXCEPT ![w].pc = "done"]
    /\ UNCHANGED <<dir, pos, setupDone, natives, lock, poisoned, fileLog, notes,
                   heap, APP_HANDLE, FREE_STRING_FN, pc, cur, events>>

(* --------------------------- specifications --------------------------- *)

Init == InitWith(RunDirs)

Next ==
    \/ ProcessEntry
    \/ SetupReturn
    \/ \E t \in Threads, op \in Ops, name \in CmdNames, payload \in Payloads :
          Invoke(t, op, name, payload)
    \/ \E t \in Threads : LockPoisoned(t)
    \/ \E t \in Threads : CallEnter(t)
    \/ \E t \in Threads, ret \in Texts \cup {<<0>>} : CallReturn(t, ret)
    \/ \E t \in Threads : StartStreaming(t)
    \/ \E w \in DOMAIN workers, bytes \in Texts : CallbackEmit(w, bytes)
    \/ \E w \in DOMAIN workers : CallbackFree(w)
    \/ \E w \in DOMAIN workers : WorkerReturn(w)

Spec == Init /\ [][Next]_vars

InitDiscovery == InitWith(SeqsUpTo(FileKinds, MaxFiles))

NextDiscovery == ProcessEntry \/ SetupReturn

SpecDiscovery == InitDiscovery /\ [][NextDiscovery]_vars

(* ------------------------------- claims ------------------------------- *)

\* A valid module file: a dynamic library that opens and exports all five
\* entry points.  An invalid one is a dynamic library that is not valid.
IsValid(file) == file.dll /\ file.opens /\ file.syms = Symbols
IsInvalid(file) == file.dll /\ ~IsValid(file)

ValidUpTo(n) == {f \in 1..n : IsValid(dir[f])}
InvalidUpTo(n) == {f \in 1..n : IsInvalid(dir[f])}
DeclaredName(f) == ToStringLossy(dir[f].name)

\* The command of thread t finds a handle: its lowered name is a key.
Hits(t) == LookupKey(cur[t].name) \in DOMAIN natives

\* C1: every buffer a library allocated is released only through that same
\* library's free_string, under any interleaving (stated as the claim; the
\* code violates it when two workers of two libraries overlap).
C1_ReleasedByOwner ==
    \A p \in DOMAIN heap :
        \A i \in DOMAIN heap[p].freedBy : heap[p].freedBy[i] = heap[p].owner

\* C2: the registry lock is never held while a library's execute or
\* execute_external runs, so a call to another library that is waiting for the
\* lock is never kept waiting by a call that is inside library code (stated
\* as the claim; the code holds the guard across the call).
C2_CallsNeverBlockEachOther ==
    \A t, u \in Threads :
        ( /\ t # u
          /\ pc[t] = "executing"
          /\ pc[u] = "lock"
          /\ cur[u].op \in {"call", "external"}
          /\ Hits(u)
          /\ natives[LookupKey(cur[u].name)] # cur[t].native )
        => lock = "free"

\* C3: after discovery every key of the registry is lower case, and every name
\* equal up to letter case to the declared name of a registered library is
\* found by the lookup of the commands, and finds a library of that name
\* (stated as the claim; the code inserts the name as declared).
C3_LookupCaseInsensitive ==
    setupDone =>
        /\ \A k \in DOMAIN natives : ToLowercase(k) = k
        /\ \A f \in ValidUpTo(Len(dir)), n \in CmdNames :
              ToLowercase(n) = ToLowercase(DeclaredName(f))
              => /\ LookupKey(n) \in DOMAIN natives
                 /\ ToLowercase(DeclaredName(natives[LookupKey(n)].execute))
                      = ToLowercase(n)

\* C4: when execute returns a non-null buffer to call, the call returns Ok with
\* that buffer's text (the bytes themselves when they are UTF-8, their lossy
\* decoding in every case), the buffer is released exactly once and by the
\* free_string of the library found, and no other buffer is touched.
C4_CallReturnsTextReleasesOnce ==
    [][ \A t \in Threads :
          ( /\ pc[t] = "executing"
            /\ cur[t].op = "call"
            /\ pc'[t] = "done"
            /\ cur'[t].ptr # 0 )
          => LET p == cur'[t].ptr
             IN  /\ p = Len(heap) + 1
                 /\ Len(heap') = p
                 /\ heap'[p].owner = cur[t].native.execute
                 /\ cur'[t].result = "Ok"
                 /\ cur'[t].text = ToStringLossy(heap'[p].bytes)
                 /\ IsUtf8(heap'[p].bytes) => cur'[t].text = heap'[p].bytes
                 /\ heap'[p].freedBy = <<cur[t].native.free_string>>
                 /\ heap'[p].freedBy = <<heap'[p].owner>>
                 /\ heap'[p].reads = 1
                 /\ \A q \in DOMAIN heap : heap'[q] = heap[q]
      ]_vars

C4_Witness ==
    \E t \in Threads :
        /\ pc[t] = "done"
        /\ cur[t].op = "call"
        /\ cur[t].result = "Ok"
        /\ cur[t].ptr # 0
        /\ cur[t].text = <<120>>
        /\ heap[cur[t].ptr].freedBy = <<cur[t].native.free_string>>

\* C5: when execute (or execute_external) returns the null pointer, the command
\* returns NativeExecutionFailed and no free_string is called: the heap is as
\* it was.
C5_NullIsFailureWithoutRelease ==
    [][ \A t \in Threads :
          ( /\ pc[t] = "executing"
            /\ pc'[t] = "done"
            /\ Len(heap') = Len(heap) )
          => /\ cur'[t].result = "NativeExecutionFailed"
             /\ cur'[t].ptr = 0
             /\ heap' = heap
      ]_vars

C5_Witness ==
    \E t, u \in Threads :
        /\ pc[t] = "done" /\ cur[t].op = "call"
        /\ pc[u] = "done" /\ cur[u].op = "external"
        /\ cur[t].result = "NativeExecutionFailed"
        /\ cur[u].result = "NativeExecutionFailed"
        /\ cur[t].native # NoNative
        /\ cur[u].native # NoNative
        /\ \A p \in DOMAIN heap : heap[p].bytes = dir[heap[p].owner].name

\* C6: a call whose name is absent from the registry always returns
\* ModuleNotFound and invokes no library code: it never enters an entry point,
\* allocates and releases nothing, spawns no worker (stated as the claim; on a
\* poisoned mutex the code panics instead).
C6_AbsentIsModuleNotFound ==
    [][ \A t \in Threads :
          ( /\ pc[t] = "lock"
            /\ cur[t].op = "call"
            /\ ~Hits(t)
            /\ pc'[t] # "lock" )
          => /\ pc'[t] = "done"
             /\ cur'[t].result = "ModuleNotFound"
             /\ heap' = heap
             /\ workers' = workers
      ]_vars

\* C7: the events of one streaming call are its messages in the order the
\* library sent them, and each message is released exactly once before the
\* next message's event: every message but the last has one release, and the
\* last has one as soon as the callback has returned.
C7_StreamEventsInOrderReleasedOnce ==
    \A w \in DOMAIN workers :
        LET mine == SelectSeq(events, LAMBDA e : e.w = w)
            sent == workers[w].sent
        IN  /\ Len(mine) = Len(sent)
            /\ Len(workers) = 1 => mine = events
            /\ \A i \in DOMAIN sent :
                  /\ mine[i].p = sent[i]
                  /\ mine[i].text = ToStringLossy(heap[sent[i]].bytes)
                  /\ i > 1 => sent[i - 1] < sent[i]
                  /\ Len(heap[sent[i]].freedBy) =
                        IF i = Len(sent) /\ workers[w].pc = "free" THEN 0 ELSE 1

C7_Witness ==
    /\ Len(workers) = 1
    /\ workers[1].pc = "done"
    /\ Len(workers[1].sent) = MaxMsgs
    /\ Len(events) = MaxMsgs
    /\ events[1].text # events[2].text

\* C8: start_streaming_task on a registered library never waits for library
\* code: while it is waiting for the lock, the lock is not held by a thread
\* that is inside execute or execute_external (stated as the claim; the code
\* holds the guard across the call).
C8_StartStreamingNeverWaits ==
    \A t, u \in Threads :
        ( /\ pc[t] = "lock"
          /\ cur[t].op = "stream"
          /\ Hits(t)
          /\ pc[u] = "executing" )
        => lock # u

\* C9: after any prefix of the enumeration the registry holds exactly the
\* declared names of the valid files of the prefix (N entries when they are
\* pairwise distinct) and one note was printed for each invalid file of the
\* prefix, in order: a bad file changes nothing for the files after it.
C9_DiscoveryCounts ==
    LET V == ValidUpTo(pos)
        I == InvalidUpTo(pos)
    IN  /\ DOMAIN natives = {DeclaredName(f) : f \in V}
        /\ (\A f, g \in V : f # g => DeclaredName(f) # DeclaredName(g))
              => Cardinality(DOMAIN natives) = Cardinality(V)
        /\ Len(notes) = Cardinality(I)
        /\ \A i \in DOMAIN notes :
              /\ notes[i] \in I
              /\ i > 1 => notes[i - 1] < notes[i]

C9_Witness ==
    /\ setupDone
    /\ Len(dir) = MaxFiles
    /\ IsInvalid(dir[1])
    /\ IsValid(dir[2])
    /\ IsInvalid(dir[3]) /\ "get_native_name" \in dir[3].syms
    /\ Cardinality(DOMAIN natives) = 1
    /\ Len(notes) = 2

\* C10: a name declared by several valid files has one entry, and the entry is
\* the handle of the one processed last.
C10_LastDuplicateWins ==
    \A k \in DOMAIN natives :
        LET same == {f \in ValidUpTo(pos) : DeclaredName(f) = k}
        IN  /\ same # {}
            /\ \A f \in same : f <= natives[k].execute
            /\ natives[k].execute \in same
            /\ natives[k] = LoadedNative(natives[k].execute)

C10_Witness ==
    /\ setupDone
    /\ \E f, g \in ValidUpTo(Len(dir)) :
          /\ f < g
          /\ DeclaredName(f) = DeclaredName(g)
          /\ natives[DeclaredName(f)] = LoadedNative(g)

\* C11: a call (or callExternal) whose payload holds a NUL fails with
\* EncodingError for a registered name and with ModuleNotFound for an
\* unregistered one, and reaches neither the entry point nor free_string
\* (stated as the claim; on a poisoned mutex the code panics instead).
C11_NulPayloadIsEncodingError ==
    [][ \A t \in Threads :
          ( /\ pc[t] = "lock"
            /\ cur[t].op \in {"call", "external"}
            /\ HasNul(cur[t].payload)
            /\ pc'[t] # "lock" )
          => /\ pc'[t] = "done"
             /\ cur'[t].result =
                   IF ToLowercase(cur[t].name) \in DOMAIN natives
                   THEN "EncodingError" ELSE "ModuleNotFound"
             /\ heap' = heap
      ]_vars

\* C12: once the mutex is poisoned, every later command still completes with a
\* result or a declared error, never a panic (stated as the claim; the code
\* unwraps the lock result).
C12_PoisonDegradesGracefully ==
    [][ \A t \in Threads :
          (poisoned /\ pc[t] = "lock" /\ pc'[t] # "lock")
          => cur'[t].result \in {"Ok", "Returned", "ModuleNotFound",
                                 "EncodingError", "NativeExecutionFailed"}
      ]_vars

\* C13: start_streaming_task with a name absent from the registry changes
\* nothing: no worker, no library code (nothing allocated, read or released),
\* no event, the registry, the mutex and both statics as they were; on a
\* mutex that is not poisoned it returns normally.
C13_StreamMissIsNoOp ==
    [][ \A t \in Threads :
          ( /\ pc[t] = "lock"
            /\ cur[t].op = "stream"
            /\ ToLowercase(cur[t].name) \notin DOMAIN natives
            /\ pc'[t] # "lock" )
          => /\ pc'[t] = "done"
             /\ ~poisoned => cur'[t].result = "Returned"
             /\ cur'[t].native = NoNative
             /\ workers' = workers
             /\ heap' = heap
             /\ events' = events
             /\ natives' = natives
             /\ APP_HANDLE' = APP_HANDLE
             /\ FREE_STRING_FN' = FREE_STRING_FN
             /\ poisoned' = poisoned
             /\ lock' = lock
      ]_vars

C13_Witness ==
    \E t, u \in Threads :
        /\ pc[t] = "done"
        /\ cur[t].op = "stream"
        /\ cur[t].name = <<67>>
        /\ cur[t].result = "Returned"
        /\ <<67>> \in DOMAIN natives
        /\ pc[u] = "done"
        /\ cur[u].op = "stream"
        /\ Len(workers) = 1
        /\ workers[1].by = u
        /\ FREE_STRING_FN = workers[1].native.free_string

\* The release calls made on the buffer a command received: none when it
\* received none.
ReleasesOf(t) == IF cur[t].ptr = 0 THEN <<>> ELSE heap[cur[t].ptr].freedBy
ReadsOf(t) == IF cur[t].ptr = 0 THEN 0 ELSE heap[cur[t].ptr].reads
ReturnedOf(t) == IF cur[t].ptr = 0 THEN <<0>> ELSE heap[cur[t].ptr].bytes

LastDeclaring(k) ==
    CHOOSE f \in ValidUpTo(Len(dir)) :
        /\ DeclaredName(f) = k
        /\ \A g \in ValidUpTo(Len(dir)) : DeclaredName(g) = k => g <= f
Discovered ==
    [k \in {DeclaredName(f) : f \in ValidUpTo(Len(dir))} |->
        LoadedNative(LastDeclaring(k))]

\* C15: once the setup hook has returned, the registry is what discovery left,
\* keys and handles, whatever commands and callbacks have run since.
C15_RegistryFrozenAfterSetup ==
    setupDone => natives = Discovered

C15_Witness ==
    /\ setupDone
    /\ natives = Discovered
    /\ \E t \in Threads : pc[t] = "done" /\ cur[t].op = "call" /\ cur[t].result = "Ok"
    /\ Len(workers) = 1
    /\ workers[1].pc = "done"
    /\ Len(workers[1].sent) = MaxMsgs

\* C16: discovery calls get_native_name only on a file whose five entry points
\* all resolve; no code of a file missing one of them is called (stated as the
\* claim; the code calls get_native_name before it resolves the other three).
C16_IdentifyOnlyOnValid ==
    \A f \in DOMAIN fileLog :
        (\E i \in DOMAIN fileLog[f] : fileLog[f][i].k = "call")
        => IsValid(dir[f])

\* C17: no buffer is read after it was released, and every released buffer was
\* copied first: in the commands and the callback (heap) and in discovery
\* (the order of the closure's steps).
C17_NoUseAfterRelease ==
    /\ \A p \in DOMAIN heap :
          /\ ~heap[p].readAfterFree
          /\ heap[p].freedBy # <<>> => heap[p].reads = 1
    /\ \A f \in DOMAIN fileLog :
          \A i, j \in DOMAIN fileLog[f] :
             (fileLog[f][i].k = "copy" /\ fileLog[f][j] = Ev("call", "free_string", fileLog[f][i].p))
             => i < j

C17_Witness ==
    /\ \E t \in Threads : pc[t] = "done" /\ cur[t].op = "external" /\ cur[t].ptr # 0
    /\ Len(workers) = 1
    /\ workers[1].pc = "done"
    /\ Len(workers[1].sent) = 1
    /\ \A p \in DOMAIN heap : heap[p].reads = 1 /\ Len(heap[p].freedBy) = 1

\* C18: for every file on which get_native_name is called, the buffer it
\* returned is copied and then released, next and exactly once, by that
\* file's own free_string, before any insertion, also when the file is then
\* skipped for a missing entry point.
C18_IdentifyBufferReleasedOnce ==
    \A f \in DOMAIN fileLog :
        LET log == fileLog[f]
        IN  \A i \in DOMAIN log :
               log[i] .k = "call" /\ log[i].s = "get_native_name"
               => LET p == log[i].p
                  IN  /\ i + 2 <= Len(log)
                      /\ log[i + 1] = Ev("copy", "name", p)
                      /\ log[i + 2] = Ev("call", "free_string", p)
                      /\ \A j \in DOMAIN log :
                            /\ log[j].k = "insert" => j > i + 2
                            /\ (log[j].k = "call" /\ j # i) => j = i + 2
                      /\ p \in DOMAIN heap
                      /\ heap[p].owner = f
                      /\ heap[p].bytes = dir[f].name
                      /\ heap[p].freedBy = <<f>>
                      /\ heap[p].reads = 1
                      /\ ~heap[p].readAfterFree

C18_Witness ==
    /\ pos = Len(dir)
    /\ \E f \in DOMAIN fileLog :
          /\ "execute_external" \notin dir[f].syms
          /\ f \in {notes[i] : i \in DOMAIN notes}
          /\ \E p \in DOMAIN heap : heap[p].owner = f /\ heap[p].freedBy = <<f>>
    /\ \E g \in DOMAIN fileLog :
          /\ IsValid(dir[g])
          /\ \E p \in DOMAIN heap : heap[p].owner = g /\ heap[p].freedBy = <<g>>

\* The messages of worker w whose callback has returned.
Delivered(w) ==
    {workers[w].sent[i] : i \in {j \in DOMAIN workers[w].sent :
                                    j < Len(workers[w].sent) \/ workers[w].pc # "free"}}

\* C19: whenever a worker exists both statics are Some, so every callback
\* emitted its event (one event and one read per message sent) and every
\* callback that returned released its buffer: nothing is dropped or leaked.
C19_RouteSetWhileWorkersExist ==
    workers # <<>> =>
        /\ APP_HANDLE
        /\ FREE_STRING_FN # 0
        /\ \A w \in DOMAIN workers :
              /\ \A i \in DOMAIN workers[w].sent :
                    /\ heap[workers[w].sent[i]].reads = 1
                    /\ \E e \in DOMAIN events : events[e].p = workers[w].sent[i]
              /\ \A p \in Delivered(w) : heap[p].freedBy # <<>>

C19_Witness ==
    /\ Len(workers) = 2
    /\ workers[1].native # workers[2].native
    /\ workers[1].pc = "done" /\ workers[2].pc = "done"
    /\ Len(workers[1].sent) = 1 /\ Len(workers[2].sent) = 1
    /\ Len(events) = 2

\* C20: a worker after whose start only streaming calls on the same library
\* started (all of them, when every streaming call targets one library) has
\* each of its messages released exactly once and by its own library.
C20_SameModuleOverwriteHarmless ==
    \A w \in DOMAIN workers :
        (\A v \in DOMAIN workers :
            v >= w => workers[v].native.free_string = workers[w].native.free_string)
        => /\ \A p \in Delivered(w) :
                 heap[p].freedBy = <<heap[p].owner>>
           /\ \A i \in DOMAIN workers[w].sent :
                 /\ heap[workers[w].sent[i]].owner = workers[w].native.free_string
                 /\ workers[w].sent[i] \notin Delivered(w)
                       => heap[workers[w].sent[i]].freedBy = <<>>

C20_Witness ==
    /\ Len(workers) = 2
    /\ workers[1].native = workers[2].native
    /\ workers[1].pc = "done" /\ workers[2].pc = "done"
    /\ Len(workers[1].sent) = MaxMsgs /\ Len(workers[2].sent) = MaxMsgs
    /\ workers[1].sent[2] > workers[2].sent[1]
    /\ \A p \in DOMAIN heap : heap[p].freedBy = <<heap[p].owner>>

====
